---- MODULE Spec2Model ----
(***************************************************************************)
(* fp-ts-std: the URLPath module (src/src/NonEmptyString.ts, second half)  *)
(* over the platform URL type, under specification Spec; the               *)
(* URLSearchParams module (src/src/URLSearchParams.ts), under ParamsSpec;  *)
(* the NonEmptyString module (src/src/NonEmptyString.ts, first half),      *)
(* under NesSpec; the array combinators of module TaskEither, on the       *)
(* tasks of src/test/TaskEither.test.ts, under TaskSpec.  The four         *)
(* specifications share the variables.                                     *)
(*                                                                         *)
(* A string is a sequence of tokens.  A token is one character, except     *)
(* three chunks that the code only ever handles whole: "https://" (the     *)
(* scheme of every URL of the model), "h" (the host text                   *)
(* urlpath.fp-ts-std.samhh.com) and the percent-escapes "%3F", "%23", ...  *)
(* A "https://" that is not at the start of a URL string reads as the      *)
(* letters "https" (one token), ":", "/", "/".                             *)
(* The model covers https URLs only.                                       *)
(***************************************************************************)
EXTENDS Integers, Sequences, FiniteSets, TLC

\* ------------------------------------------------------------------ bounds
\* Most pairs of a URLSearchParams handed to a function of module URLSearchParams.
MaxPairs == 3

\* Longest string handed to a constructor (fromString, fromPathname, new URL).
MaxLen == 2

\* Longest string handed to a setter or to a modifier's function.
MaxArg == 2

\* Longest array of tasks handed to a combinator of module TaskEither.
MaxTasks == 3

\* ------------------------------------------------------------------ strings
\* The input alphabet.
Char == {"a", "h", "/", "?", "#", ":", "@", ".", "="}

RECURSIVE StrOver(_, _)
\* All strings over alphabet A of length exactly n.
StrOver(A, n) ==
    IF n = 0 THEN {<<>>}
    ELSE {Append(s, c) : s \in StrOver(A, n - 1), c \in A}

\* All strings over A of length at most n.
StrsUpTo(A, n) == UNION {StrOver(A, k) : k \in 0..n}

\* First index of s holding a token of set D, Len(s)+1 when there is none.
IndexOf(s, D) ==
    IF \E i \in 1..Len(s) : s[i] \in D
    THEN CHOOSE i \in 1..Len(s) : s[i] \in D /\ \A j \in 1..(i - 1) : s[j] \notin D
    ELSE Len(s) + 1

\* Last index of s holding token c, 0 when there is none.
LastIndexOf(s, c) ==
    IF \E i \in 1..Len(s) : s[i] = c
    THEN CHOOSE i \in 1..Len(s) : s[i] = c /\ \A j \in (i + 1)..Len(s) : s[j] # c
    ELSE 0

Take(s, n) == SubSeq(s, 1, n)
Drop(s, n) == SubSeq(s, n + 1, Len(s))

RECURSIVE SplitOn(_, _)
\* s split at every token c: k separators give k+1 pieces.
SplitOn(s, c) ==
    LET i == IndexOf(s, {c})
    IN  IF i > Len(s) THEN <<s>>
        ELSE <<Take(s, i - 1)>> \o SplitOn(Drop(s, i), c)

RECURSIVE JoinWith(_, _)
\* The pieces joined with the string sep between them.
JoinWith(ps, sep) ==
    IF ps = <<>> THEN <<>>
    ELSE IF Len(ps) = 1 THEN ps[1]
    ELSE ps[1] \o sep \o JoinWith(Tail(ps), sep)

\* Each token of s replaced by f[token] where f is defined.
MapTok(s, f) == [i \in 1..Len(s) |-> IF s[i] \in DOMAIN f THEN f[s[i]] ELSE s[i]]

\* ------------------------------------------------------------------ percent-encoding
\* The escapes of the tokens the encode sets of the URL standard can touch.
Escape == [c \in {"/", "?", "#", ":", "@", "=", "&"} |->
            CASE c = "/" -> "%2F" [] c = "?" -> "%3F" [] c = "#" -> "%23"
              [] c = ":" -> "%3A" [] c = "@" -> "%40" [] c = "=" -> "%3D"
              [] c = "&" -> "%26"]

Unescape == [e \in {Escape[c] : c \in DOMAIN Escape} |->
              CHOOSE c \in DOMAIN Escape : Escape[c] = e]

\* UTF-8 percent-encode s with the set E: tokens of E are escaped, "%xx" is kept.
PctEncode(s, E) == MapTok(s, [c \in E |-> Escape[c]])

PathSet     == {"?", "#"}
QuerySet    == {"#"}
UserinfoSet == {"/", "?", "#", ":", "@", "="}
FormSet     == {"/", "?", "#", ":", "@", "=", "&"}

\* ------------------------------------------------------------------ the platform URL
\* An absent query or fragment (the URL standard's null), unlike the empty one.
Null == <<"null">>

\* The scheme chunk and the placeholder host chunk.
Https == "https://"
PhonyHost == <<"h">>

\* A URL record: credentials, host, path as a list of segments, query, fragment.
\* The port is always null: the alphabet holds no digit, and a non-digit after
\* the ":" of an authority is a parse failure.
MkURL(user, pass, host, path, query, frag) ==
    [user |-> user, pass |-> pass, host |-> host, path |-> path,
     query |-> query, frag |-> frag]

\* What a throwing call produces: the TypeError of a failed parse of input s.
TypeError(s) == [name |-> "TypeError", input |-> s]
Thrown(s) == [ok |-> FALSE, err |-> TypeError(s)]
Returned(u) == [ok |-> TRUE, url |-> u]

\* Tokens a host may hold: letters, "." and "=" are not forbidden host code points.
HostChar == {"a", "h", "https", ".", "="}

ValidHost(hs) == hs # <<>> /\ \A i \in 1..Len(hs) : hs[i] \in HostChar

RECURSIVE PathFold(_, _, _)
\* The path state of the URL parser over the "/"-separated pieces of the input:
\* ".." pops a segment, "." is dropped, either one as last piece leaves an empty
\* segment, any other piece is percent-encoded and appended.
PathFold(pieces, i, acc) ==
    IF i > Len(pieces) THEN acc
    ELSE LET b == pieces[i]
             last == (i = Len(pieces))
             popped == IF acc = <<>> THEN acc ELSE Take(acc, Len(acc) - 1)
             next == IF b = <<".", ".">>
                        THEN (IF last THEN Append(popped, <<>>) ELSE popped)
                     ELSE IF b = <<".">>
                        THEN (IF last THEN Append(acc, <<>>) ELSE acc)
                     ELSE Append(acc, PctEncode(b, PathSet))
         IN  PathFold(pieces, i + 1, next)

\* Path start state then path state: one leading "/" is consumed.
ParsePath(p) ==
    LET r == IF p # <<>> /\ p[1] = "/" THEN Tail(p) ELSE p
    IN  PathFold(SplitOn(r, "/"), 1, <<>>)

\* Number of leading "/" of s (special authority ignore slashes state).
LeadingSlashes(s) ==
    IndexOf(s, (Char \cup {Https, "https"} \cup DOMAIN Unescape \cup {"&"}) \ {"/"}) - 1

\* The authority auth of the input s: credentials up to the last "@", then
\* host, then ":" and the port.  An empty or forbidden host is a failure, and so
\* is a port that holds a non-digit (every token of the alphabet).
ParseAuthority(s, userinfo, hostport, path, query, frag) ==
    IF \/ ~ValidHost(Take(hostport, IndexOf(hostport, {":"}) - 1))
       \/ Drop(hostport, IndexOf(hostport, {":"})) # <<>>
    THEN Thrown(s)
    ELSE Returned(MkURL(
            PctEncode(Take(userinfo, IndexOf(userinfo, {":"}) - 1), UserinfoSet),
            PctEncode(Drop(userinfo, IndexOf(userinfo, {":"})), UserinfoSet),
            Take(hostport, IndexOf(hostport, {":"}) - 1),
            path, query, frag))

\* The input s cut into authority auth, path p and the rest q, which is empty
\* or starts with "?" or "#": the query runs from "?" to the first "#", the
\* fragment from that "#" to the end.
ParseParts(s, auth, p, q) ==
    ParseAuthority(s,
        Take(auth, LastIndexOf(auth, "@") - 1),
        Drop(auth, LastIndexOf(auth, "@")),
        ParsePath(p),
        IF q # <<>> /\ q[1] = "?" THEN SubSeq(q, 2, IndexOf(q, {"#"}) - 1) ELSE Null,
        IF IndexOf(q, {"#"}) <= Len(q) THEN Drop(q, IndexOf(q, {"#"})) ELSE Null)

\* What follows the scheme and the slashes: the authority ends at the first of
\* "/", "?", "#", the path at the first of "?", "#".
ParseAfterScheme(s, r) ==
    ParseParts(s,
        Take(r, IndexOf(r, {"/", "?", "#"}) - 1),
        SubSeq(r, IndexOf(r, {"/", "?", "#"}), IndexOf(r, {"?", "#"}) - 1),
        Drop(r, IndexOf(r, {"?", "#"}) - 1))

RECURSIVE ExpandScheme(_)
\* The characters of s after a scheme: a further "https://" is no scheme any
\* more but the letters "https", a ":" and two "/".
ExpandScheme(s) ==
    IF s = <<>> THEN <<>>
    ELSE (IF s[1] = Https THEN <<"https", ":", "/", "/">> ELSE <<s[1]>>)
            \o ExpandScheme(Tail(s))

\* The input s whose characters after the scheme are r: the slashes that
\* follow the scheme are skipped.
ParseSpecial(s, r) == ParseAfterScheme(s, Drop(r, LeadingSlashes(r)))

\* new URL(s): the basic URL parser on an absolute string.  A string that does
\* not start with the scheme chunk has no scheme and no base: TypeError.
ParseURL(s) ==
    IF s = <<>> \/ s[1] # Https THEN Thrown(s)
    ELSE ParseSpecial(s, ExpandScheme(Tail(s)))

\* The getters of URL.
Pathname(u) == <<"/">> \o JoinWith(u.path, <<"/">>)
Search(u) == IF u.query = Null \/ u.query = <<>> THEN <<>> ELSE <<"?">> \o u.query
Hash(u) == IF u.frag = Null \/ u.frag = <<>> THEN <<>> ELSE <<"#">> \o u.frag
Origin(u) == <<Https>> \o u.host
Credentials(u) ==
    IF u.user = <<>> /\ u.pass = <<>> THEN <<>>
    ELSE u.user \o (IF u.pass = <<>> THEN <<>> ELSE <<":">> \o u.pass) \o <<"@">>
Href(u) ==
    <<Https>> \o Credentials(u) \o u.host \o Pathname(u)
      \o (IF u.query = Null THEN <<>> ELSE <<"?">> \o u.query)
      \o (IF u.frag = Null THEN <<>> ELSE <<"#">> \o u.frag)

\* The setters of URL (assignments u.pathname = v, u.search = v, u.hash = v).
\* With the parser's state override "?" and "#" end nothing: they are encoded.
AssignPathname(u, v) == [u EXCEPT !.path = ParsePath(v)]
AssignSearch(u, v) ==
    IF v = <<>> THEN [u EXCEPT !.query = Null]
    ELSE [u EXCEPT !.query = PctEncode(IF v[1] = "?" THEN Tail(v) ELSE v, QuerySet)]
AssignHash(u, v) ==
    IF v = <<>> THEN [u EXCEPT !.frag = Null]
    ELSE [u EXCEPT !.frag = IF v[1] = "#" THEN Tail(v) ELSE v]

\* ------------------------------------------------------------------ URLSearchParams
RECURSIVE FormPairs(_)
\* application/x-www-form-urlencoded parsing of the "&"-separated pieces: empty
\* pieces are skipped, a piece splits at its first "=", both sides are decoded.
FormPairs(pieces) ==
    IF pieces = <<>> THEN <<>>
    ELSE LET b == pieces[1]
             e == IndexOf(b, {"="})
             pair == <<MapTok(Take(b, e - 1), Unescape), MapTok(Drop(b, e), Unescape)>>
         IN  (IF b = <<>> THEN <<>> ELSE <<pair>>) \o FormPairs(Tail(pieces))

\* new URLSearchParams(s) for a query string s without its "?".
FormParse(q) == FormPairs(SplitOn(q, "&"))

\* URLSearchParams.prototype.toString: name=value joined with "&", both encoded.
FormSerialize(ps) ==
    JoinWith([i \in 1..Len(ps) |->
                PctEncode(ps[i][1], FormSet) \o <<"=">> \o PctEncode(ps[i][2], FormSet)],
             <<"&">>)

\* u.searchParams: the list of pairs of the URL's query.
SearchParams(u) == IF u.query = Null THEN <<>> ELSE FormParse(u.query)

\* URLSearchParams.prototype.set on a list of pairs: the first pair of key k
\* takes value v, later pairs of key k are removed; without one, (k, v) is appended.
ParamsSet(ps, k, v) ==
    LET first == IF \E i \in 1..Len(ps) : ps[i][1] = k
                 THEN CHOOSE i \in 1..Len(ps) :
                        ps[i][1] = k /\ \A j \in 1..(i - 1) : ps[j][1] # k
                 ELSE 0
        keep == SelectSeq([i \in 1..Len(ps) |-> <<i, ps[i]>>],
                          LAMBDA e : e[1] = first \/ e[2][1] # k)
    IN  IF first = 0 THEN Append(ps, <<k, v>>)
        ELSE [i \in 1..Len(keep) |-> IF keep[i][1] = first THEN <<k, v>> ELSE keep[i][2]]

\* A change of u.searchParams writes the serialized list back to the URL's query
\* (null when the list serializes to the empty string).
UpdateQuery(u, ps) ==
    [u EXCEPT !.query = IF FormSerialize(ps) = <<>> THEN Null ELSE FormSerialize(ps)]

\* ------------------------------------------------------------------ the heap
\* Objects live in a heap, a sequence of URL records; a reference is an index,
\* and a located reference c is a heap with a reference into it.
\* heap[PhonyRef] is the module-level constant phonyBase.
PhonyRef == 1

At(hp, r) == [heap |-> hp, ref |-> r]
Alloc(hp, u) == [heap |-> Append(hp, u), ref |-> Len(hp) + 1]
Deref(c) == c.heap[c.ref]
Store(c, u) == [c EXCEPT !.heap[c.ref] = u]

\* ------------------------------------------------------------------ module URL
\* URL.clone: a new object parsed from the href of the old one.
URL_clone(c) == Alloc(c.heap, ParseURL(Href(Deref(c))).url)

\* The value an onError function makes of the TypeError e.
ApplyErr(f, e) == IF f = "identity" THEN e ELSE [name |-> "oops", input |-> <<>>]

EitherOf(f, p) ==
    IF p.ok THEN [tag |-> "Right", val |-> p.url]
    ELSE [tag |-> "Left", val |-> ApplyErr(f, p.err)]

\* URL.parse(f): Left(f(e)) when new URL(s) throws e, Right(url) otherwise.
URL_parse(f, s) == EitherOf(f, ParseURL(s))

\* An Endomorphism<string> handed to a modifier: identity, s => s + t, or constant t.
ApplyStr(f, s) ==
    CASE f.kind = "id" -> s
      [] f.kind = "append" -> s \o f.s
      [] f.kind = "const" -> f.s

\* URL.modifyPathname / setPathname, modifyParams / setParams, modifyHash / setHash:
\* each clones its argument and assigns the one component of the clone.
PathnameInto(c, v) == Store(c, AssignPathname(Deref(c), v))
SearchInto(c, v) == Store(c, AssignSearch(Deref(c), v))
HashInto(c, v) == Store(c, AssignHash(Deref(c), v))

URL_modifyPathname(f, c) == PathnameInto(URL_clone(c), ApplyStr(f, Pathname(Deref(c))))
URL_setPathname(s, c) == URL_modifyPathname([kind |-> "const", s |-> s], c)
URL_modifyHash(f, c) == HashInto(URL_clone(c), ApplyStr(f, Hash(Deref(c))))
URL_setHash(s, c) == URL_modifyHash([kind |-> "const", s |-> s], c)

\* The serialized form of u restricted to scheme, host, path, query and hash:
\* a query or a fragment that is present is written with its "?" or "#", also
\* when it is empty.
Serialized(u) ==
    <<Https>> \o u.host \o Pathname(u)
      \o (IF u.query = Null THEN <<>> ELSE <<"?">> \o u.query)
      \o (IF u.frag = Null THEN <<>> ELSE <<"#">> \o u.frag)

\* URL.Eq: string identity of the serialized forms.
URL_Eq(a, b) == Serialized(a) = Serialized(b)

\* ------------------------------------------------------------------ module URLSearchParams
\* Params.toString.
Params_toString(ps) == FormSerialize(ps)

\* Params.clone: a new collection with the same pairs.
Params_clone(ps) == [i \in 1..Len(ps) |-> ps[i]]

\* Params.upsertAt, appendAt, deleteAt: clone, then the platform's set, append, delete.
Params_upsertAt(k, v, ps) == ParamsSet(Params_clone(ps), k, v)
Params_appendAt(k, v, ps) == Append(Params_clone(ps), <<k, v>>)
Params_deleteAt(k, ps) == SelectSeq(Params_clone(ps), LAMBDA e : e[1] # k)

\* An Endomorphism<URLSearchParams> handed to modifyParams.
ApplyParams(g, ps) ==
    CASE g.kind = "id" -> ps
      [] g.kind = "const" -> g.ps
      [] g.kind = "upsertAt" -> Params_upsertAt(g.k, g.v, ps)
      [] g.kind = "appendAt" -> Params_appendAt(g.k, g.v, ps)
      [] g.kind = "deleteAt" -> Params_deleteAt(g.k, ps)

URL_modifyParams(g, c) ==
    SearchInto(URL_clone(c), Params_toString(ApplyParams(g, SearchParams(Deref(c)))))
URL_setParams(ps, c) == URL_modifyParams([kind |-> "const", ps |-> ps], c)

\* ---- URLSearchParams as objects: a collection is a list of (key, value) pairs
\* O.some and O.none.
Some(v) == [tag |-> "Some", val |-> v]
None == [tag |-> "None", val |-> <<>>]

\* constructor(x) for a string x: new URLSearchParams(x), a leading "?" is dropped.
Params_fromString(s) == FormParse(IF s # <<>> /\ s[1] = "?" THEN Tail(s) ELSE s)

\* constructor(x) for an array of tuples x.
Params_fromTuples(ts) == [i \in 1..Len(ts) |-> <<ts[i][1], ts[i][2]>>]

\* toTuples: the entries of the collection in order.
Params_toTuples(ps) == [i \in 1..Len(ps) |-> <<ps[i][1], ps[i][2]>>]

RECURSIVE RecordFold(_, _, _)
\* R.fromFoldableMap(NEA.getSemigroup(), A.Foldable) over the tuples ts from
\* index i: the value of a new key is [v], that of a key already there is
\* concatenated with [v].
RecordFold(ts, i, acc) ==
    IF i > Len(ts) THEN acc
    ELSE RecordFold(ts, i + 1,
            IF ts[i][1] \in DOMAIN acc
            THEN [acc EXCEPT ![ts[i][1]] = @ \o <<ts[i][2]>>]
            ELSE acc @@ (ts[i][1] :> <<ts[i][2]>>))

\* toRecord that keeps the last value of a key in the place of all of them.
Params_toRecordLast(ps) ==
    [k \in {ps[i][1] : i \in 1..Len(ps)} |->
        <<ps[CHOOSE i \in 1..Len(ps) :
                ps[i][1] = k /\ \A j \in (i + 1)..Len(ps) : ps[j][1] # k][2]>>]

\* toRecord: a function from the keys to the non-empty lists of their values.
Params_toRecord(ps) == RecordFold(Params_toTuples(ps), 1, <<>>)

\* Str.Ord on strings of one-character tokens: code unit order, a proper prefix first.
CodeUnit == [c \in {"#", ".", "/", ":", "=", "?", "@", "a", "h"} |->
              CASE c = "#" -> 35 [] c = "." -> 46 [] c = "/" -> 47 [] c = ":" -> 58
                [] c = "=" -> 61 [] c = "?" -> 63 [] c = "@" -> 64 [] c = "a" -> 97
                [] c = "h" -> 104]

RECURSIVE StrLeq(_, _)
StrLeq(a, b) ==
    IF a = <<>> THEN TRUE
    ELSE IF b = <<>> THEN FALSE
    ELSE IF a[1] # b[1] THEN CodeUnit[a[1]] < CodeUnit[b[1]]
    ELSE StrLeq(Tail(a), Tail(b))

RECURSIVE InsertSorted(_, _)
InsertSorted(xs, e) ==
    IF xs = <<>> THEN <<e>>
    ELSE IF StrLeq(e, xs[1]) THEN <<e>> \o xs
    ELSE <<xs[1]>> \o InsertSorted(Tail(xs), e)

RECURSIVE SortStrs(_)
\* A.sort(Str.Ord)
SortStrs(xs) == IF xs = <<>> THEN <<>> ELSE InsertSorted(SortStrs(Tail(xs)), xs[1])

\* getDisorderedEq(Str.Ord): the two arrays are equal once sorted.
getDisorderedEq(xs, ys) == SortStrs(xs) = SortStrs(ys)

\* R.getEq(E) on two records: the same keys, and E on the values of each key.
RecordEq(r, q) ==
    /\ DOMAIN r = DOMAIN q
    /\ \A k \in DOMAIN r : getDisorderedEq(r[k], q[k])

\* Eq with the values of each key compared in their own order.
Params_EqOrdered(a, b) == Params_toRecord(a) = Params_toRecord(b)

\* Eq on the keys alone.
Params_EqKeys(a, b) == DOMAIN Params_toRecord(a) = DOMAIN Params_toRecord(b)

\* Eq = contramap(toRecord)(R.getEq(getDisorderedEq(Str.Ord)))
Params_Eq(a, b) == RecordEq(Params_toRecord(a), Params_toRecord(b))

\* URLSearchParams.prototype.get: the first value of key k, null without one.
PlatformGet(ps, k) ==
    IF \E i \in 1..Len(ps) : ps[i][1] = k
    THEN ps[CHOOSE i \in 1..Len(ps) : ps[i][1] = k /\ \A j \in 1..(i - 1) : ps[j][1] # k][2]
    ELSE Null

\* URLSearchParams.prototype.getAll: the values of key k in order.
PlatformGetAll(ps, k) ==
    LET sel == SelectSeq(ps, LAMBDA e : e[1] = k)
    IN  [i \in 1..Len(sel) |-> sel[i][2]]

\* lookupFirst(k) = flow(invoke("get")([k]), O.fromNullable) that takes the
\* empty string for null.
Params_lookupFirstFalsy(k, ps) ==
    IF PlatformGet(ps, k) \in {Null, <<>>} THEN None ELSE Some(PlatformGet(ps, k))

\* lookupFirst(k) = flow(invoke("get")([k]), O.fromNullable)
Params_lookupFirst(k, ps) ==
    IF PlatformGet(ps, k) = Null THEN None ELSE Some(PlatformGet(ps, k))

\* lookup(k) = flow(invoke("getAll")([k]), NEA.fromArray)
Params_lookup(k, ps) ==
    IF PlatformGetAll(ps, k) = <<>> THEN None ELSE Some(PlatformGetAll(ps, k))

\* size
Params_size(ps) == Len(ps)

\* The platform's set, append and delete on the object at c.
SetAt(c, k, v) == Store(c, ParamsSet(Deref(c), k, v))
AppendTo(c, k, v) == Store(c, Append(Deref(c), <<k, v>>))
DeleteFrom(c, k) == Store(c, SelectSeq(Deref(c), LAMBDA e : e[1] # k))

\* clone = constructor: a new object with the pairs of the one at c.
Params_cloneRef(c) == Alloc(c.heap, Params_clone(Deref(c)))

\* upsertAt by delete and append.
Params_upsertByAppend(k, v, c) == AppendTo(DeleteFrom(Params_cloneRef(c), k), k, v)

\* upsertAt without the clone: set on the argument itself.
Params_upsertInPlace(k, v, c) == SetAt(c, k, v)

\* appendAt with set in the place of append.
Params_appendBySet(k, v, c) == SetAt(Params_cloneRef(c), k, v)

\* deleteAt that removes the first pair of key k alone.
Params_deleteFirstOnly(k, c) ==
    Store(Params_cloneRef(c),
          MapTok(SelectSeq([i \in 1..Len(Deref(c)) |-> <<i, Deref(c)[i]>>],
                           LAMBDA e : e[2][1] # k \/ \E j \in 1..(e[1] - 1) : Deref(c)[j][1] = k),
                 [e \in {<<i, Deref(c)[i]>> : i \in 1..Len(Deref(c))} |-> e[2]]))

\* upsertAt, setParam, appendAt, deleteAt on the object at c: clone, then the
\* platform's call on the clone, which is returned.
Params_upsertAtRef(k, v, c) == SetAt(Params_cloneRef(c), k, v)
Params_setParamRef(k, v, c) == SetAt(Params_cloneRef(c), k, v)
Params_appendAtRef(k, v, c) == AppendTo(Params_cloneRef(c), k, v)
Params_deleteAtRef(k, c) == DeleteFrom(Params_cloneRef(c), k)

\* ------------------------------------------------------------------ module URLPath
\* A URLPath is a URL at runtime: pack, unpack and over of Newtype add nothing.

\* const phonyBase = new globalThis.URL("https://urlpath.fp-ts-std.samhh.com")
phonyBase == ParseURL(<<Https>> \o PhonyHost).url

hasPhonyBase(hp, u) == Origin(u) = Origin(hp[PhonyRef])

\* ensurePhonyBase(x) for the URL at c: a clone of phonyBase that takes x's
\* pathname, the serialized searchParams of x, and x's hash.
ensurePhonyBase(c) ==
    HashInto(
        SearchInto(
            PathnameInto(URL_clone(At(c.heap, PhonyRef)), Pathname(Deref(c))),
            Params_toString(SearchParams(Deref(c)))),
        Hash(Deref(c)))

\* clone that returns its argument.
cloneAliased(c) == c

clone(c) == URL_clone(c)

\* A foreign value handed to isURLPath: a URL object, by its reference, or a string.
UrlValue(r) == [kind |-> "url", ref |-> r, val |-> <<>>]
StringValue(s) == [kind |-> "string", ref |-> 0, val |-> s]

\* URL.isURL (./URL): the value is a URL object
isURL(v) == v.kind = "url"

\* isURLPath = (u) => URL.isURL(u) && u.origin === phonyBase.origin
isURLPath(hp, v) == isURL(v) /\ Origin(hp[v.ref]) = Origin(hp[PhonyRef])

\* fromURL that takes the URL as it is, origin included.
fromURLKept(c) == clone(c)

\* fromURL(x) = ensurePhonyBase(new URL(x.href, phonyBase)); an absolute href
\* ignores the base.
fromURL(c) == ensurePhonyBase(Alloc(c.heap, ParseURL(Href(Deref(c))).url))

getPathname(c) == Pathname(Deref(c))
getParams(c) == SearchParams(Deref(c))
getHash(c) == Hash(Deref(c))

\* The three setters of toURL on the parsed base p, for the URLPath at c.
WithPathOf(p, c) ==
    Deref(URL_setHash(getHash(c),
            URL_setParams(getParams(c),
                URL_setPathname(getPathname(c), Alloc(c.heap, p)))))

MapRight(e, c) == IF e.tag = "Left" THEN e ELSE [tag |-> "Right", val |-> WithPathOf(e.val, c)]

\* toURL with the onError function dropped: the TypeError itself is the Left.
toURLRawError(f, baseUrl, c) == MapRight(URL_parse("identity", baseUrl), c)

\* toURL(f)(baseUrl)(x): the parsed base with x's pathname, params and hash set
\* one after the other, each setter on a clone.  The result is a value, held by
\* no reference of the heap.
toURL(f, baseUrl, c) == MapRight(URL_parse(f, baseUrl), c)

FromEither(e) ==
    IF e.tag = "Right" THEN [tag |-> "Some", val |-> e.val]
    ELSE [tag |-> "None", val |-> <<>>]

\* toURLO(baseUrl) = flow(toURL(identity)(baseUrl), O.fromEither)
toURLO(baseUrl, c) == FromEither(toURL("identity", baseUrl, c))

\* The completion of a call that may throw: ok is FALSE when it threw.
Completed(c) == [ok |-> TRUE, heap |-> c.heap, ref |-> c.ref]
Threw(hp) == [ok |-> FALSE, heap |-> hp, ref |-> 0]

\* O.getOrElse(() => new URL(`${phonyBase.origin}/${x}`)) on None
OrElse(hp, second) == IF second.ok THEN Completed(Alloc(hp, second.url)) ELSE Threw(hp)

\* The first parse kept whenever it does not throw: O.filter left out.
TryFirstUnfiltered(hp, s, first) ==
    IF first.ok THEN Completed(Alloc(hp, first.url))
    ELSE OrElse(hp, ParseURL(Origin(hp[PhonyRef]) \o <<"/">> \o s))

\* O.tryCatch(() => new URL(`${phonyBase.origin}${x}`)), then O.filter(hasPhonyBase)
TryFirst(hp, s, first) ==
    IF first.ok /\ hasPhonyBase(hp, first.url) THEN Completed(Alloc(hp, first.url))
    ELSE OrElse(hp, ParseURL(Origin(hp[PhonyRef]) \o <<"/">> \o s))

\* fromString(x): the first parse is kept when it neither throws nor leaves the
\* placeholder origin; otherwise x is parsed again behind a "/".
fromString(hp, s) == TryFirst(hp, s, ParseURL(Origin(hp[PhonyRef]) \o s))

\* fromPathname by parsing origin + "/" + x instead of assigning the pathname.
fromPathnameParsed(hp, s) == Alloc(hp, ParseURL(Origin(hp[PhonyRef]) \o <<"/">> \o s).url)

\* fromPathname(x): a clone of phonyBase whose pathname is assigned x.
fromPathname(hp, s) == PathnameInto(URL_clone(At(hp, PhonyRef)), s)

\* toString(x) = x.pathname + x.search + x.hash
toString(c) == Pathname(Deref(c)) \o Search(Deref(c)) \o Hash(Deref(c))

\* modifyPathname that assigns the pathname of its argument and returns it.
modifyPathnameInPlace(f, c) == PathnameInto(c, ApplyStr(f, Pathname(Deref(c))))

modifyPathname(f, c) == URL_modifyPathname(f, c)

\* setPathname that appends to the pathname it finds.
setPathnameAppended(s, c) == URL_modifyPathname([kind |-> "append", s |-> s], c)

\* setPathname that builds its result from the pathname alone.
setPathnameAlone(s, c) == PathnameInto(URL_clone(At(c.heap, PhonyRef)), s)

setPathname(s, c) == URL_setPathname(s, c)
modifyParams(g, c) == URL_modifyParams(g, c)
setParams(ps, c) == URL_setParams(ps, c)
modifyHash(f, c) == URL_modifyHash(f, c)
setHash(s, c) == URL_setHash(s, c)

\* Eq = contramap(unpack)(URL.Eq)
Eq(a, b) == URL_Eq(a, b)

\* ------------------------------------------------------------------ inputs
\* Strings handed to fromString and fromPathname.
Strs == StrsUpTo(Char, MaxLen)

\* Absolute strings handed to fromString: a scheme and a host, then a path, a
\* query, a hash.
AbsStrs ==
    {<<Https, "a">> \o s :
        s \in {<<>>, <<"/", "a">>, <<"/", "a", "#", "a">>, <<"?", "a", "=", "a">>,
               <<"/", "a", "?", "a", "=", "a", "#", "a">>}}

\* Strings handed to new URL before fromURL: the host "a" followed by any
\* string, with and without credentials; only those that parse.
UrlStrs ==
    {b \in {<<Https, "a">> \o s : s \in Strs}
             \cup {<<Https, "a", ":", "a", "@", "a">> \o s : s \in StrsUpTo(Char, 1)} :
        ParseURL(b).ok}

\* Strings handed to setPathname and setHash, and used by the functions of
\* modifyPathname and modifyHash.
ArgChar == {"a", "/", "?", "#", "."}
Args == StrsUpTo(ArgChar, MaxArg)
StrFns ==
    {[kind |-> "id", s |-> <<>>]}
      \cup {[kind |-> "append", s |-> s] : s \in {<<"a">>, <<"?">>, <<"/", ".", ".">>}}

\* Strings assigned to the pathname of the URL under a URLPath.
Assigned == {<<>>, <<"a">>, <<"/", "a", "?">>}

\* Base strings handed to toURL and toURLO: with and without a scheme, with a
\* good and a bad authority.
Bases ==
    { <<Https, "a">>, <<Https, "a", "@", "a", "/", "a", "?", "a", "#", "a">>,
      <<Https, "/", "a", ":">>, <<"a", ".", "a">>, <<>>, <<"/", "a">>,
      <<Https>>, <<Https, "a", ":", "a">>, <<Https, "@", "/">> }
ErrFns == {"identity", "constant"}

\* Keys and values of query parameters, and the collections handed to setParams.
Keys == {<<"a">>, <<"?">>}
Vals == {<<>>, <<"a">>, <<"/">>}
Pair(k, v) == <<k, v>>
ParamLists ==
    {<<>>} \cup {<<Pair(k, v)>> : k \in Keys, v \in Vals}
      \cup {<<Pair(<<"a">>, <<"a">>), Pair(<<"?">>, <<>>), Pair(<<"a">>, <<"/">>)>>}
ParamFns ==
    {[kind |-> "id"]}
      \cup {[kind |-> "upsertAt", k |-> k, v |-> v] : k \in Keys, v \in Vals}
      \cup {[kind |-> "appendAt", k |-> k, v |-> v] : k \in Keys, v \in Vals}
      \cup {[kind |-> "deleteAt", k |-> k] : k \in Keys}

\* ------------------------------------------------------------------ state
VARIABLES
    heap,   \* the objects: heap[PhonyRef] is phonyBase
    x,      \* reference of the URLPath at hand, 0 before one is built
    y,      \* reference of the last result that is a URLPath, 0 when none
    op,     \* the last call
    arg,    \* its arguments
    pre,    \* the heap before it
    out,    \* its result when that is no URLPath
    made    \* the call that made the URLPath at hand

vars == <<heap, x, y, op, arg, pre, out, made>>

NoArg == [s |-> <<>>]
NoOut == [tag |-> "none"]
Heap0 == <<phonyBase>>

Init ==
    /\ heap = Heap0
    /\ x = 0
    /\ y = 0
    /\ op = "init"
    /\ arg = NoArg
    /\ pre = Heap0
    /\ out = NoOut
    /\ made = "none"

\* A URLPath has just been built and nothing was applied to it yet.
Built == x # 0 /\ op \in {"fromString", "fromPathname", "fromURL"}

\* The calls that return a URLPath made from the one at hand.
Setters ==
    {"setPathname", "modifyPathname", "setParams", "modifyParams", "setHash", "modifyHash"}

\* A URLPath is at hand: just built, or the result of a setter taken over.
Held == x # 0 /\ op \in {"fromString", "fromPathname", "fromURL", "adopt"}

\* ---- constructors: each starts from the heap that holds phonyBase alone
\* A constructor called with heap hp returned (or threw, ok = FALSE) r.
Construct(name, a, hp, r, ok) ==
    /\ op = "init"
    /\ heap' = r.heap
    /\ x' = r.ref
    /\ y' = 0
    /\ op' = name
    /\ arg' = a
    /\ pre' = hp
    /\ out' = [tag |-> IF ok THEN "returned" ELSE "thrown"]
    /\ made' = name

Completion(name, a, hp, r) == Construct(name, a, hp, r, r.ok)

FromString(s) == Completion("fromString", [s |-> s], heap, fromString(heap, s))

FromPathname(s) == Construct("fromPathname", [s |-> s], heap, fromPathname(heap, s), TRUE)

\* u = new URL(b) at h; x = fromURL(u).  arg.u is the reference of u.
FromURLOf(b, h) == Construct("fromURL", [s |-> b, u |-> h.ref], h.heap, fromURL(h), TRUE)

FromURL(b) == FromURLOf(b, Alloc(heap, ParseURL(b).url))

\* ---- calls on the URLPath at hand
X == At(heap, x)

\* A call that returns a URLPath at reference r.ref of heap r.heap.
Result(name, a, r) ==
    /\ Held
    /\ heap' = r.heap
    /\ y' = r.ref
    /\ op' = name
    /\ arg' = a
    /\ pre' = heap
    /\ out' = NoOut
    /\ UNCHANGED <<x, made>>

\* A call that returns something else.
Value(name, a, v) ==
    /\ Held
    /\ out' = v
    /\ op' = name
    /\ arg' = a
    /\ pre' = heap
    /\ y' = 0
    /\ UNCHANGED <<heap, x, made>>

Clone == Built /\ Result("clone", NoArg, clone(X))
SetPathname(s) == Result("setPathname", [s |-> s], setPathname(s, X))
ModifyPathname(f) == Result("modifyPathname", [f |-> f], modifyPathname(f, X))
SetParams(ps) == Result("setParams", [ps |-> ps], setParams(ps, X))
ModifyParams(g) == Result("modifyParams", [g |-> g], modifyParams(g, X))
SetHash(s) == Result("setHash", [s |-> s], setHash(s, X))
ModifyHash(f) == Result("modifyHash", [f |-> f], modifyHash(f, X))

Stringify == Value("toString", NoArg, [tag |-> "string", val |-> toString(X)])
ToURL(f, b) == Value("toURL", [f |-> f, s |-> b], toURL(f, b, X))
ToURLO(b) == Value("toURLO", [s |-> b], toURLO(b, X))

\* isURLPath(v) for a URL of the heap or a string
IsURLPath(v) == Value("isURLPath", [v |-> v], [tag |-> "bool", val |-> isURLPath(heap, v)])

\* The values isURLPath is asked about once a URLPath is built: every URL of
\* the heap, the URLPath among them, and a string.
Foreign == {UrlValue(r) : r \in DOMAIN heap} \cup {StringValue(<<"a">>)}

\* fromString(toString(x))
ReparseOf(r) == r.ok /\ Result("reparse", NoArg, r)

Reparse == Held /\ ReparseOf(fromString(heap, toString(X)))

\* setPathname(getPathname(x))(x)
SetOwnPathname ==
    /\ Held
    /\ Result("setOwnPathname", [s |-> getPathname(X)], setPathname(getPathname(X), X))

\* The result of a setter applied to a URLPath just built becomes the URLPath at
\* hand; the objects no reference holds any more are dropped.  The calls on any
\* URLPath follow (toString, fromString(toString(x)),
\* setPathname(getPathname(x))(x)) and a second setter of another part
\* (setHash after a pathname setter, modifyParams after a hash setter,
\* setPathname after a params setter); its result is not taken over.
Adopt ==
    /\ op \in Setters
    /\ made \notin Setters
    /\ heap' = <<heap[PhonyRef], heap[y]>>
    /\ x' = 2
    /\ y' = 0
    /\ op' = "adopt"
    /\ arg' = NoArg
    /\ pre' = heap
    /\ out' = NoOut
    /\ made' = op

\* toURL(identity)(u.href)(fromURL(u)) for the URL u that x was built from
BackToURL ==
    /\ op = "fromURL"
    /\ Value("backToURL", arg, toURL("identity", Href(heap[arg.u]), X))

\* ---- assignments to the URL under a URLPath, after y = clone(x)
\* (x as URL).pathname = s, or the same on y
AssignPathnameOf(target, s) ==
    /\ op = "clone"
    /\ heap' = [heap EXCEPT ![IF target = "x" THEN x ELSE y] = AssignPathname(@, s)]
    /\ op' = "assignPathname"
    /\ arg' = [target |-> target, s |-> s]
    /\ pre' = heap
    /\ UNCHANGED <<x, y, out, made>>

\* (x as URL).searchParams.set(k, v), or the same on y
SearchParamsSetOf(target, k, v) ==
    /\ op = "clone"
    /\ heap' = [heap EXCEPT ![IF target = "x" THEN x ELSE y] =
                    UpdateQuery(@, ParamsSet(SearchParams(@), k, v))]
    /\ op' = "searchParamsSet"
    /\ arg' = [target |-> target, k |-> k, v |-> v]
    /\ pre' = heap
    /\ UNCHANGED <<x, y, out, made>>

\* What a setter is given: any of S on a URLPath just built, one of T on the
\* result of one of the setters in first, nothing on the result of another.
Given(S, T, first) == IF Built THEN S ELSE IF made \in first THEN T ELSE {}

\* The guards stand before the quantifiers: op = "init" for the constructors,
\* Held or Built for the calls, op = "clone" for the assignments.
Next ==
    \/ op = "init" /\ \E s \in Strs \cup AbsStrs : FromString(s)
    \/ op = "init" /\ \E s \in Strs : FromPathname(s)
    \/ op = "init" /\ \E b \in UrlStrs : FromURL(b)
    \/ Clone
    \/ Held /\ \E s \in Given(Args, {<<"/", "/">>}, {"setParams", "modifyParams"}) :
                  SetPathname(s)
    \/ Built /\ \E f \in StrFns : ModifyPathname(f)
    \/ Built /\ \E ps \in ParamLists : SetParams(ps)
    \/ Held /\ \E g \in Given(ParamFns, {[kind |-> "appendAt", k |-> <<"a">>, v |-> <<"a">>]},
                               {"setHash", "modifyHash"}) :
                  ModifyParams(g)
    \/ Held /\ \E s \in Given(Args, {<<"a">>}, {"setPathname", "modifyPathname"}) : SetHash(s)
    \/ Built /\ \E f \in StrFns : ModifyHash(f)
    \/ Adopt
    \/ Stringify
    \/ Built /\ \E v \in Foreign : IsURLPath(v)
    \/ Reparse
    \/ SetOwnPathname
    \/ Built /\ \E f \in ErrFns, b \in Bases : ToURL(f, b)
    \/ Built /\ \E b \in Bases : ToURLO(b)
    \/ BackToURL
    \/ op = "clone" /\ \E t \in {"x", "y"}, s \in Assigned : AssignPathnameOf(t, s)
    \/ op = "clone" /\ \E t \in {"x", "y"}, k \in Keys, v \in Vals : SearchParamsSetOf(t, k, v)

Spec == Init /\ [][Next]_vars

\* ================================================================== module URLSearchParams
\* The same variables, for the calls of module URLSearchParams: heap holds the
\* URLSearchParams objects, x is the collection at hand, y the last result that
\* is a collection, made the pairs of x when it was built.

\* Values of query parameters, and the collections up to MaxPairs pairs.
PVals == {<<>>, <<"a">>}
PairLists == StrsUpTo({Pair(k, v) : k \in Keys, v \in PVals}, MaxPairs)

\* Strings handed to fromString.
QueryStrs ==
    { <<"a", "=", "a", "&", "?", "=", "&", "a", "=">>, <<"?", "a", "=", "a">>, <<"a">>,
      <<"a", "=", "=", "&", "&", "%3F", "=", "%3D">> }

ParamsInit ==
    /\ heap = <<>>
    /\ x = 0
    /\ y = 0
    /\ op = "init"
    /\ arg = NoArg
    /\ pre = <<>>
    /\ out = NoOut
    /\ made = <<>>

\* A constructor returned the object at r.
ParamsConstruct(name, a, r) ==
    /\ op = "init"
    /\ heap' = r.heap
    /\ x' = r.ref
    /\ y' = 0
    /\ op' = name
    /\ arg' = a
    /\ pre' = heap
    /\ out' = NoOut
    /\ made' = Deref(r)

ParamsFromTuples(ts) ==
    ParamsConstruct("fromTuples", [ps |-> ts], Alloc(heap, Params_fromTuples(ts)))
ParamsFromString(s) ==
    ParamsConstruct("fromString", [s |-> s], Alloc(heap, Params_fromString(s)))

\* x has just been built.
ParamsBuilt == op \in {"fromTuples", "fromString"}

\* The calls that return a collection made from their argument.
Updates == {"upsertAt", "setParam", "appendAt", "deleteAt"}

\* One update was applied to x so far.
UpdatedOnce == op \in Updates /\ DOMAIN pre = {x}

\* The collections a call may take: x, and the result of the update before.
Targets == IF ParamsBuilt THEN {x} ELSE {x, y}

\* An update of the collection at a.t returned the object at r.
Update(name, a, r) ==
    /\ heap' = r.heap
    /\ y' = r.ref
    /\ op' = name
    /\ arg' = a
    /\ pre' = heap
    /\ out' = NoOut
    /\ UNCHANGED <<x, made>>

UpsertAt(k, v, t) ==
    Update("upsertAt", [k |-> k, v |-> v, t |-> t], Params_upsertAtRef(k, v, At(heap, t)))
SetParam(k, v, t) ==
    Update("setParam", [k |-> k, v |-> v, t |-> t], Params_setParamRef(k, v, At(heap, t)))
AppendAt(k, v, t) ==
    Update("appendAt", [k |-> k, v |-> v, t |-> t], Params_appendAtRef(k, v, At(heap, t)))
DeleteAt(k, t) ==
    Update("deleteAt", [k |-> k, v |-> <<>>, t |-> t], Params_deleteAtRef(k, At(heap, t)))

\* (t as URLSearchParams).set(k, v) after an update: the platform's call on
\* x or on the result itself.
PlatformSet(k, v, t) ==
    /\ heap' = [heap EXCEPT ![t] = ParamsSet(@, k, v)]
    /\ op' = "set"
    /\ arg' = [k |-> k, v |-> v, t |-> t]
    /\ pre' = heap
    /\ UNCHANGED <<x, y, out, made>>

\* A call on x that returns no collection.
Query(name, a, v) ==
    /\ ParamsBuilt
    /\ out' = v
    /\ op' = name
    /\ arg' = a
    /\ pre' = heap
    /\ y' = 0
    /\ UNCHANGED <<heap, x, made>>

Lookup(k) == Query("lookup", [k |-> k], Params_lookup(k, heap[x]))
LookupFirst(k) == Query("lookupFirst", [k |-> k], Params_lookupFirst(k, heap[x]))
ToRecord == Query("toRecord", NoArg, [tag |-> "record", val |-> Params_toRecord(heap[x])])
ToTuples == Query("toTuples", NoArg, [tag |-> "tuples", val |-> Params_toTuples(heap[x])])
Size == Query("size", NoArg, [tag |-> "number", val |-> Params_size(heap[x])])
\* Eq.equals(x, fromTuples(ys))
Equals(ys) ==
    Query("equals", [ps |-> ys], [tag |-> "boolean", val |-> Params_Eq(heap[x], Params_fromTuples(ys))])

ParamsNext ==
    \/ op = "init" /\ \E ts \in PairLists : ParamsFromTuples(ts)
    \/ op = "init" /\ \E s \in QueryStrs : ParamsFromString(s)
    \/ (ParamsBuilt \/ UpdatedOnce) /\ \E t \in Targets, k \in Keys, v \in PVals : UpsertAt(k, v, t)
    \/ (ParamsBuilt \/ UpdatedOnce) /\ \E t \in Targets, k \in Keys, v \in PVals : SetParam(k, v, t)
    \/ (ParamsBuilt \/ UpdatedOnce) /\ \E t \in Targets, k \in Keys, v \in PVals : AppendAt(k, v, t)
    \/ (ParamsBuilt \/ UpdatedOnce) /\ \E t \in Targets, k \in Keys : DeleteAt(k, t)
    \/ UpdatedOnce /\ \E t \in Targets, k \in Keys, v \in PVals : PlatformSet(k, v, t)
    \/ ParamsBuilt /\ \E k \in Keys : Lookup(k)
    \/ ParamsBuilt /\ \E k \in Keys : LookupFirst(k)
    \/ ToRecord
    \/ ToTuples
    \/ Size
    \/ ParamsBuilt /\ \E ys \in PairLists : Equals(ys)

ParamsSpec == ParamsInit /\ [][ParamsNext]_vars

\* ================================================================== module NonEmptyString
\* A NonEmptyString is a string at runtime: pack and unpack of Newtype add
\* nothing.  x is the NonEmptyString at hand, 0 when there is none; the heap
\* is not used.

\* isEmpty of fp-ts/string: length 0.
Str_isEmpty(s) == Len(s) = 0

\* fromString with the predicate the wrong way round.
NES_fromStringOfEmpty(s) == IF Str_isEmpty(s) THEN Some(s) ELSE None

\* fromString = flow(O.fromPredicate(not(isEmpty)), O.map(pack))
NES_fromString(s) == IF ~Str_isEmpty(s) THEN Some(s) ELSE None

\* unNonEmptyString = unpack
NES_unNonEmptyString(w) == w

\* What a call of an unsafe function ends in: the error it throws, carrying a
\* message, or the value it returns.
NesThrown(msg) == [tag |-> "thrown", val |-> msg]
NesReturned(v) == [tag |-> "returned", val |-> v]

\* unsafeExpect(msg) (./Option): the value of a Some, an Error(msg) thrown on None
unsafeExpect(msg, o) == IF o.tag = "None" THEN NesThrown(msg) ELSE NesReturned(o.val)

\* unsafeUnwrap (./Option): the value of a Some, an error thrown on None
unsafeUnwrap(o) == unsafeExpect(<<"unwrapped None">>, o)

\* the message unsafeFromString hands to unsafeExpect
LiftMessage == <<"Failed to lift an empty string to NonEmptyString">>

\* unsafeFromString that wraps without looking.
NES_unsafeFromStringUnchecked(s) == NesReturned(s)

\* unsafeFromString = flow(fromString, unsafeExpect("Failed to lift ..."))
NES_unsafeFromString(s) == unsafeExpect(LiftMessage, NES_fromString(s))

\* The numbers fromNumber is given: integers and NaN.
Nums == [kind : {"int"}, n : -11..11] \cup {[kind |-> "NaN", n |-> 0]}

DigitTok == <<"0", "1", "2", "3", "4", "5", "6", "7", "8", "9">>

RECURSIVE Digits(_)
Digits(n) == IF n < 10 THEN <<DigitTok[n + 1]>>
             ELSE Digits(n \div 10) \o <<DigitTok[(n % 10) + 1]>>

\* Str.fromNumber (./String) = String: the canonical decimal text of a number
Str_fromNumber(n) ==
    IF n.kind = "NaN" THEN <<"N", "a", "N">>
    ELSE IF n.n < 0 THEN <<"-">> \o Digits(-n.n)
    ELSE Digits(n.n)

\* fromNumber = flow(Str.fromNumber, unsafeFromString)
NES_fromNumber(n) == NES_unsafeFromString(Str_fromNumber(n))

\* Str.head, Str.last (./String): the first, the last character, None of ""
Str_head(s) == IF Str_isEmpty(s) THEN None ELSE Some(<<s[1]>>)
Str_last(s) == IF Str_isEmpty(s) THEN None ELSE Some(<<s[Len(s)]>>)

\* String.prototype.toUpperCase / toLowerCase on the letters in use
UpperOf == [c \in {"a", "h"} |-> IF c = "a" THEN "A" ELSE "H"]
LowerOf == [c \in {"A", "H", "N"} |-> IF c = "A" THEN "a" ELSE IF c = "H" THEN "h" ELSE "n"]

\* head = over(flow(Str.head, unsafeUnwrap))
NES_head(w) == unsafeUnwrap(Str_head(w))

\* last = over(flow(Str.last, unsafeUnwrap))
NES_last(w) == unsafeUnwrap(Str_last(w))

\* toUpperCase = over(_toUpperCase), toLowerCase = over(_toLowerCase)
NES_toUpperCase(w) == NesReturned(MapTok(w, UpperOf))
NES_toLowerCase(w) == NesReturned(MapTok(w, LowerOf))

\* prepend = flow(Str.prepend, over), append = flow(Str.append, over)
NES_prepend(s, w) == NesReturned(s \o w)
NES_append(s, w) == NesReturned(w \o s)

\* surround that keeps the affixes and drops what they surround.
NES_surroundAlone(s, w) == NesReturned(s \o s)

\* surround = flow(Str.surround, over)
NES_surround(s, w) == NesReturned(s \o w \o s)

\* reverse = over(Str.reverse)
NES_reverse(w) == NesReturned([i \in 1..Len(w) |-> w[Len(w) + 1 - i]])

\* Semigroup = getSemigroup(_Semigroup): concat(a, b) is a followed by b
NES_concat(a, b) == NesReturned(a \o b)

NesInit ==
    /\ heap = <<>>
    /\ x = 0
    /\ y = 0
    /\ op = "init"
    /\ arg = NoArg
    /\ pre = <<>>
    /\ out = NoOut
    /\ made = "none"

\* A constructor given s ended in o, an Option or what an unsafe call ends in;
\* x is the value a Some holds or the call returned.
NesOption(name, s, o) ==
    /\ op = "init"
    /\ out' = o
    /\ x' = IF o.tag \in {"Some", "returned"} THEN o.val ELSE 0
    /\ op' = name
    /\ arg' = [s |-> s]
    /\ made' = name
    /\ UNCHANGED <<heap, y, pre>>

NesFromString(s) == NesOption("fromString", s, NES_fromString(s))

NesUnsafeFromString(s) == NesOption("unsafeFromString", s, NES_unsafeFromString(s))

\* fromNumber(n); arg keeps the text Str.fromNumber made of n
NesFromNumber(n) == NesOption("fromNumber", Str_fromNumber(n), NES_fromNumber(n))

\* x is a NonEmptyString some function of the module returned
NesHeld == out.tag \in {"Some", "returned"}

\* the longest string the operations are followed to
NesCap == MaxLen + 1

\* the strings prepend, append and surround are given
NesArgs == StrsUpTo({"a", "."}, 1)

\* An operation of the module applied to x ended in r, and x is what it returned.
NesApply(name, s, r) ==
    /\ NesHeld
    /\ r.tag = "returned" => Len(r.val) <= NesCap
    /\ out' = r
    /\ x' = IF r.tag = "returned" THEN r.val ELSE 0
    /\ op' = name
    /\ arg' = [s |-> s]
    /\ UNCHANGED <<heap, y, pre, made>>

NesHead == NesHeld /\ NesApply("head", <<>>, NES_head(x))
NesLast == NesHeld /\ NesApply("last", <<>>, NES_last(x))
NesToUpperCase == NesHeld /\ NesApply("toUpperCase", <<>>, NES_toUpperCase(x))
NesToLowerCase == NesHeld /\ NesApply("toLowerCase", <<>>, NES_toLowerCase(x))
NesPrepend(s) == NesHeld /\ NesApply("prepend", s, NES_prepend(s, x))
NesAppend(s) == NesHeld /\ NesApply("append", s, NES_append(s, x))
NesSurround(s) == NesHeld /\ NesApply("surround", s, NES_surround(s, x))
NesReverse == NesHeld /\ NesApply("reverse", <<>>, NES_reverse(x))

\* Semigroup.concat(x, w) for a second NonEmptyString w = unsafeFromString(s)
NesConcat(s) ==
    /\ NesHeld
    /\ NES_unsafeFromString(s).tag = "returned"
    /\ NesApply("concat", s, NES_concat(x, NES_unsafeFromString(s).val))

\* unNonEmptyString(w) for the w that fromString returned
NesUnwrap ==
    /\ op = "fromString"
    /\ out.tag = "Some"
    /\ out' = [tag |-> "string", val |-> NES_unNonEmptyString(x)]
    /\ op' = "unNonEmptyString"
    /\ UNCHANGED <<heap, x, y, arg, pre, made>>

NesNext ==
    \/ op = "init" /\ \E s \in Strs : NesFromString(s)
    \/ op = "init" /\ \E s \in Strs : NesUnsafeFromString(s)
    \/ op = "init" /\ \E n \in Nums : NesFromNumber(n)
    \/ NesUnwrap
    \/ NesHead
    \/ NesLast
    \/ NesToUpperCase
    \/ NesToLowerCase
    \/ \E s \in NesArgs : NesPrepend(s)
    \/ \E s \in NesArgs : NesAppend(s)
    \/ \E s \in NesArgs : NesSurround(s)
    \/ NesReverse
    \/ \E s \in NesArgs : NesConcat(s)

NesSpec == NesInit /\ [][NesNext]_vars

\* ------------------------------------------------------------------ TaskEither
\* The combinators of module TaskEither run on the tasks of its tests: x is the
\* test's counter n, arg.s the array of tasks handed to the combinator, heap the
\* position of each task of the array, pre the tasks whose effect has happened,
\* in the order it happened, made the combinator, out what the combined task
\* resolved to.

\* g = TE.fromTask(T.sleep(1 ms)) then n = n * 2; h = TE.fromIO(n += 5)
TaskNames == {"g", "h"}

\* the arrays of tasks handed to a combinator
TaskArrays == StrsUpTo(TaskNames, MaxTasks)

\* A task once started: g has set its timer and sleeps, h has queued its IO as
\* a microtask (T.fromIO) and is ready to run it.
Started(t) == IF t = "g" THEN "sleeping" ELSE "ready"

\* the IO of a task, applied to n
Effect(t, n) == IF t = "g" THEN n * 2 ELSE n + 5

\* TE.traverseArray: every task of the array is started, in array order,
\* before any is awaited (Promise.all)
StartAll(xs) == [i \in 1..Len(xs) |-> Started(xs[i])]

\* TE.traverseSeqArray, TE.sequenceSeqArray: the first task is started, each
\* further one when the one before it has resolved
StartFirst(xs) == [i \in 1..Len(xs) |-> IF i = 1 THEN Started(xs[i]) ELSE "idle"]

TaskInit ==
    /\ heap = <<>>
    /\ x = 0
    /\ y = 0
    /\ op = "init"
    /\ arg = NoArg
    /\ pre = <<>>
    /\ out = NoOut
    /\ made = "none"

\* T.execute of the task that combinator name has made of the array xs
Launch(name, xs, ts) ==
    /\ op = "init"
    /\ heap' = ts
    /\ arg' = [s |-> xs]
    /\ made' = name
    /\ op' = "running"
    /\ UNCHANGED <<x, y, pre, out>>

\* sequenceSeqArray_ that starts every task at once.
SequenceSeqArrayAtOnce(xs) == Launch("sequenceSeqArray_", xs, StartAll(xs))

\* pipe(sequenceSeqArray_(xs), T.execute)
SequenceSeqArray_(xs) == Launch("sequenceSeqArray_", xs, StartFirst(xs))

\* pipe(traverseSeqArray_(identity)(xs), T.execute)
TraverseSeqArray_(xs) == Launch("traverseSeqArray_", xs, StartFirst(xs))

\* traverseArray_ that starts the first task alone.
TraverseArrayInTurn(xs) == Launch("traverseArray_", xs, StartFirst(xs))

\* pipe(traverseArray_(identity)(xs), T.execute)
TraverseArray_(xs) == Launch("traverseArray_", xs, StartAll(xs))

\* Task i runs its IO and resolves; a task waiting for it to resolve is started.
Resolve(i) ==
    /\ x' = Effect(arg.s[i], x)
    /\ heap' = [j \in 1..Len(heap) |->
                   IF j = i THEN "done"
                   ELSE IF j = i + 1 /\ heap[j] = "idle" THEN Started(arg.s[j])
                   ELSE heap[j]]
    /\ pre' = Append(pre, i)
    /\ UNCHANGED <<y, op, arg, out, made>>

\* The event loop runs the oldest queued microtask: the IO of a ready task.
RunMicrotask ==
    /\ op = "running"
    /\ \E i \in DOMAIN heap :
          /\ heap[i] = "ready"
          /\ \A j \in 1..(i - 1) : heap[j] # "ready"
          /\ Resolve(i)

\* With no microtask queued, the timer set first fires: its task wakes and
\* runs the IO chained to the sleep.
TimerFires ==
    /\ op = "running"
    /\ \A j \in DOMAIN heap : heap[j] # "ready"
    /\ \E i \in DOMAIN heap :
          /\ heap[i] = "sleeping"
          /\ \A j \in 1..(i - 1) : heap[j] # "sleeping"
          /\ Resolve(i)

\* Every task has resolved (each to a Right): the combined task resolves.
Settle ==
    /\ op = "running"
    /\ \A j \in DOMAIN heap : heap[j] = "done"
    /\ op' = "done"
    /\ out' = [tag |-> "right"]
    /\ UNCHANGED <<heap, x, y, arg, pre, made>>

TaskNext ==
    \/ op = "init" /\ \E xs \in TaskArrays : SequenceSeqArray_(xs)
    \/ op = "init" /\ \E xs \in TaskArrays : TraverseSeqArray_(xs)
    \/ op = "init" /\ \E xs \in TaskArrays : TraverseArray_(xs)
    \/ RunMicrotask
    \/ TimerFires
    \/ Settle

TaskSpec == TaskInit /\ [][TaskNext]_vars

\* ------------------------------------------------------------------ properties
\* The pathname, search, hash and origin read from a and from b agree.
SameParts(a, b) ==
    /\ Pathname(a) = Pathname(b)
    /\ Search(a) = Search(b)
    /\ Hash(a) = Hash(b)
    /\ Origin(a) = Origin(b)

\* The first parse of fromString(s): new URL(origin + s).
FirstParse(s) == ParseURL(Origin(phonyBase) \o s)

\* C1: fromString returns for every string and never throws, and the origin of
\* what it returns is the placeholder origin, whether the first parse was kept,
\* threw, or left the placeholder origin.
C1_FromStringTotal ==
    op = "fromString" =>
        /\ out.tag = "returned"
        /\ x \in DOMAIN heap
        /\ Origin(heap[x]) = Origin(phonyBase)

\* fromString of a string whose first parse leaves the placeholder origin
\* returned through the "/"-prefixed parse.
C1_Witness ==
    /\ op = "fromString"
    /\ out.tag = "returned"
    /\ FirstParse(arg.s).ok
    /\ Origin(FirstParse(arg.s).url) # Origin(phonyBase)
    /\ Pathname(heap[x]) = <<"/">> \o arg.s

\* C11: fromString of an absolute string drops the scheme and the authority:
\* the result has the pathname, search and hash of the URL that the string
\* spells, as fromString of the string without its origin has.
C11_AbsoluteString ==
    (op = "fromString" /\ arg.s \in AbsStrs) =>
        /\ Pathname(heap[x]) = Pathname(ParseURL(arg.s).url)
        /\ Search(heap[x]) = Search(ParseURL(arg.s).url)
        /\ Hash(heap[x]) = Hash(ParseURL(arg.s).url)
        /\ Eq(heap[x], Deref(fromString(Heap0, Drop(arg.s, 2))))

\* C2: for every URLPath x, fromString(toString(x)) equals x under Eq.
C2_RoundTrip == op = "reparse" => Eq(heap[y], heap[x])

\* C3: with a base that does not parse, toURL(f) returns Left(f(e)) for the
\* TypeError e of the parse and toURLO returns None; toURL is a Left, and
\* toURLO is None, exactly when the base does not parse.
C3_ToURLBadBase ==
    /\ op = "toURL" =>
          /\ out.tag = "Left" <=> ~ParseURL(arg.s).ok
          /\ out.tag = "Left" => out.val = ApplyErr(arg.f, TypeError(arg.s))
    /\ op = "toURLO" =>
          (out.tag = "None" <=> ~ParseURL(arg.s).ok)

\* toURL with a constant onError on a base without a scheme returned the Left
\* of that constant.
C3_Witness ==
    /\ op = "toURL"
    /\ arg.f = "constant"
    /\ arg.s = <<"a", ".", "a">>
    /\ out.tag = "Left"
    /\ out.val # TypeError(arg.s)

\* C4: for every URL u, toURL(identity)(u.href)(fromURL(u)) is Right(u') with
\* u' equal to u.
C4_URLRoundTrip ==
    op = "backToURL" =>
        /\ out.tag = "Right"
        /\ SameParts(out.val, heap[arg.u])
        /\ Credentials(out.val) = Credentials(heap[arg.u])

\* C5: fromPathname returns for every string; what it returns has an empty
\* query and an empty hash, no "?" and no "#" in its pathname, and toURL of it
\* with a base that parses is a Right.
C5_FromPathnameOnly ==
    /\ op = "fromPathname" =>
          /\ out.tag = "returned"
          /\ heap[x].query = Null /\ Search(heap[x]) = <<>>
          /\ heap[x].frag = Null /\ Hash(heap[x]) = <<>>
          /\ \A i \in 1..Len(Pathname(heap[x])) : Pathname(heap[x])[i] \notin {"?", "#"}
          /\ toString(At(heap, x)) = Pathname(heap[x])
    /\ (op = "toURL" /\ made = "fromPathname" /\ ParseURL(arg.s).ok) =>
          /\ out.tag = "Right"
          /\ Pathname(out.val) = Pathname(heap[x])
          /\ Search(out.val) = <<>>
          /\ Hash(out.val) = <<>>

\* fromPathname of a string with "?" returned a pathname that holds "%3F".
C5_Witness ==
    /\ op = "fromPathname"
    /\ \E i \in 1..Len(arg.s) : arg.s[i] = "?"
    /\ \E i \in 1..Len(arg.s) : arg.s[i] = "#"
    /\ \E i \in 1..Len(Pathname(heap[x])) : Pathname(heap[x])[i] = "%3F"
    /\ \E i \in 1..Len(Pathname(heap[x])) : Pathname(heap[x])[i] = "%23"

\* C6: setPathname(s) of a URLPath made by fromPathname is fromPathname(s).
C6_SetPathnameOverrides ==
    (op = "setPathname" /\ made = "fromPathname") =>
        /\ heap[y] = Deref(fromPathname(Heap0, arg.s))
        /\ Eq(heap[y], Deref(fromPathname(Heap0, arg.s)))

\* setPathname replaced a pathname other than "/" by another one.
C6_Witness ==
    /\ op = "setPathname"
    /\ made = "fromPathname"
    /\ Pathname(heap[x]) # <<"/">>
    /\ Pathname(heap[y]) # <<"/">>
    /\ Pathname(heap[y]) # Pathname(heap[x])

\* C7: for every URLPath x, setPathname(getPathname(x))(x) equals x: the same
\* URL record, hence the same pathname, query and hash.
C7_GetSetIdentity ==
    op = "setOwnPathname" =>
        /\ heap[y] = heap[x]
        /\ Eq(heap[y], heap[x])
        /\ arg.s = Pathname(heap[x])

\* setPathname(getPathname(x))(x) on an x that no constructor made, with a
\* query and a hash.
C7_Witness ==
    /\ op = "setOwnPathname"
    /\ made \in Setters
    /\ Search(heap[x]) # <<>>
    /\ Hash(heap[x]) # <<>>
    /\ y # x

\* C8: y = clone(x) reads the same pathname, params and hash as x; an
\* assignment to the URL under x afterwards leaves y as it was, and one to
\* the URL under y leaves x as it was.
C8_CloneAliasFree ==
    /\ op = "clone" =>
          /\ SameParts(heap[y], heap[x])
          /\ SearchParams(heap[y]) = SearchParams(heap[x])
          /\ heap[x] = pre[x]
    /\ op \in {"assignPathname", "searchParamsSet"} =>
          /\ arg.target = "x" =>
                /\ Pathname(heap[y]) = Pathname(pre[y])
                /\ SearchParams(heap[y]) = SearchParams(pre[y])
          /\ arg.target = "y" =>
                /\ Pathname(heap[x]) = Pathname(pre[x])
                /\ SearchParams(heap[x]) = SearchParams(pre[x])

\* set on the searchParams of x changed the params of x, not those of y.
C8_Witness ==
    /\ op = "searchParamsSet"
    /\ arg.target = "x"
    /\ SearchParams(heap[x]) # SearchParams(pre[x])
    /\ SearchParams(heap[y]) = SearchParams(pre[x])

\* C9: a setter or modifier leaves every object of the heap before the call as
\* it was, x among them; its result is a new object that differs from x in the
\* targeted component alone.
C9_SettersPure ==
    op \in Setters =>
        /\ y \in DOMAIN heap /\ y \notin DOMAIN pre
        /\ \A r \in DOMAIN pre : heap[r] = pre[r]
        /\ Origin(heap[y]) = Origin(heap[x])
        /\ op \notin {"setPathname", "modifyPathname"} => Pathname(heap[y]) = Pathname(heap[x])
        /\ op \notin {"setParams", "modifyParams"} => Search(heap[y]) = Search(heap[x])
        /\ op \notin {"setHash", "modifyHash"} => Hash(heap[y]) = Hash(heap[x])

\* modifyPathname on an x with a query returned another pathname.
C9_Witness ==
    /\ op = "modifyPathname"
    /\ Search(heap[x]) # <<>>
    /\ Pathname(heap[y]) # Pathname(heap[x])
    /\ Pathname(heap[x]) = Pathname(pre[x])

\* C10: fromURL(u) has the pathname, search and hash of u and the placeholder
\* origin, and leaves u as it was.
C10_FromURLKeeps ==
    op = "fromURL" =>
        /\ Pathname(heap[x]) = Pathname(heap[arg.u])
        /\ Search(heap[x]) = Search(heap[arg.u])
        /\ Hash(heap[x]) = Hash(heap[arg.u])
        /\ Origin(heap[x]) = Origin(phonyBase)
        /\ heap[arg.u] = pre[arg.u]

\* ------------------------------------------------------------------ properties of URLSearchParams
\* How often e occurs in the list s, and the elements of s.
Count(s, e) == Cardinality({i \in 1..Len(s) : s[i] = e})
Range(s) == {s[i] : i \in 1..Len(s)}

\* The keys of the pairs ps, whether k is one of them, and the index of its first pair.
KeysOf(ps) == {ps[i][1] : i \in 1..Len(ps)}
HasKey(ps, k) == \E i \in 1..Len(ps) : ps[i][1] = k
FirstOf(ps, k) == CHOOSE i \in 1..Len(ps) : ps[i][1] = k /\ \A j \in 1..(i - 1) : ps[j][1] # k

RECURSIVE ValuesOf(_, _)
\* The values of key k in ps, first to last.
ValuesOf(ps, k) ==
    IF ps = <<>> THEN <<>>
    ELSE (IF ps[1][1] = k THEN <<ps[1][2]>> ELSE <<>>) \o ValuesOf(Tail(ps), k)

RECURSIVE Without(_, _)
\* The pairs of ps whose key is not k, in order.
Without(ps, k) ==
    IF ps = <<>> THEN <<>>
    ELSE (IF ps[1][1] = k THEN <<>> ELSE <<ps[1]>>) \o Without(Tail(ps), k)

\* The two lists hold the same elements as often, in any order.
SameBag(s, q) == \A e \in Range(s) \cup Range(q) : Count(s, e) = Count(q, e)

\* C12 as stated: Eq.equals(x, y) holds iff toRecord(x) and toRecord(y) have the
\* same keys and for every key the same values in the same order.
C12_EqSameKeyOrder ==
    op = "equals" =>
        (out.val <=> Params_toRecord(heap[x]) = Params_toRecord(arg.ps))

\* C12 as amended: Eq.equals(x, y) holds iff toRecord(x) and toRecord(y) have the
\* same keys and for every key the same values as often, in any order.
C12_EqSameKeyBag ==
    op = "equals" =>
        (out.val <=>
            /\ DOMAIN Params_toRecord(heap[x]) = DOMAIN Params_toRecord(arg.ps)
            /\ \A k \in DOMAIN Params_toRecord(heap[x]) :
                  SameBag(Params_toRecord(heap[x])[k], Params_toRecord(arg.ps)[k]))

\* Two collections whose values of one key come in another order were found equal.
C12_Witness ==
    /\ op = "equals"
    /\ out.val
    /\ DOMAIN Params_toRecord(heap[x]) = DOMAIN Params_toRecord(arg.ps)
    /\ \E k \in DOMAIN Params_toRecord(heap[x]) :
          Params_toRecord(heap[x])[k] # Params_toRecord(arg.ps)[k]

\* C13: Eq.equals(x, y) is true when the pairs of y are a permutation of the
\* pairs of x, and false when the two multisets of pairs differ.
C13_EqDisordered ==
    op = "equals" => (out.val <=> SameBag(Params_toTuples(heap[x]), arg.ps))

\* Three pairs, two of one key, were found equal to a permutation of them.
C13_Witness ==
    /\ op = "equals"
    /\ out.val
    /\ Len(arg.ps) = MaxPairs
    /\ arg.ps # heap[x]
    /\ arg.ps[1][1] # heap[x][1][1]
    /\ Cardinality(Range(arg.ps)) = MaxPairs
    /\ Cardinality(KeysOf(arg.ps)) < MaxPairs

\* C14: upsertAt(k)(v) (and setParam) of a collection with key k puts (k, v)
\* where the first pair of key k was and drops the later pairs of key k; of a
\* collection without key k it appends (k, v); the other pairs keep their
\* order, and lookup(k) of the result is [v].
C14_UpsertIsSet ==
    op \in {"upsertAt", "setParam"} =>
        /\ Params_lookup(arg.k, heap[y]) = Some(<<arg.v>>)
        /\ Without(heap[y], arg.k) = Without(pre[arg.t], arg.k)
        /\ HasKey(pre[arg.t], arg.k) =>
              heap[y][FirstOf(pre[arg.t], arg.k)] = <<arg.k, arg.v>>
        /\ ~HasKey(pre[arg.t], arg.k) =>
              heap[y] = pre[arg.t] \o <<Pair(arg.k, arg.v)>>

\* upsertAt of a key with two pairs, the first of them before a pair of another key.
C14_Witness ==
    /\ op = "upsertAt"
    /\ Count(ValuesOf(pre[arg.t], arg.k), arg.v) = 0
    /\ Len(ValuesOf(pre[arg.t], arg.k)) > 1
    /\ FirstOf(pre[arg.t], arg.k) < Len(heap[y])
    /\ Len(heap[y]) < Len(pre[arg.t])

\* C15: appendAt(k)(v)(x) has the tuples of x followed by (k, v): one more
\* pair, and lookup(k) is the values k had followed by v.
C15_AppendAddsLast ==
    op = "appendAt" =>
        /\ Params_toTuples(heap[y]) = Params_toTuples(pre[arg.t]) \o <<Pair(arg.k, arg.v)>>
        /\ Params_size(heap[y]) = Params_size(pre[arg.t]) + 1
        /\ Params_lookup(arg.k, heap[y]) = Some(ValuesOf(pre[arg.t], arg.k) \o <<arg.v>>)

\* appendAt of a key that the collection held already, with another value.
C15_Witness ==
    /\ op = "appendAt"
    /\ HasKey(pre[arg.t], arg.k)
    /\ Count(ValuesOf(pre[arg.t], arg.k), arg.v) = 0
    /\ Len(Params_lookup(arg.k, heap[y]).val) > 1

\* C16: deleteAt(k)(x) has the tuples of x without those of key k, in order;
\* lookup(k) of it is None and the other keys keep their values; without key k
\* in x the result has the pairs of x.
C16_DeleteRemovesAll ==
    op = "deleteAt" =>
        /\ Params_toTuples(heap[y]) = Without(Params_toTuples(pre[arg.t]), arg.k)
        /\ Params_lookup(arg.k, heap[y]) = None
        /\ \A k \in Keys \ {arg.k} :
              Params_lookup(k, heap[y]) = Params_lookup(k, pre[arg.t])
        /\ ~HasKey(pre[arg.t], arg.k) => heap[y] = pre[arg.t]

\* deleteAt of a key with two pairs around a pair of another key.
C16_Witness ==
    /\ op = "deleteAt"
    /\ Len(ValuesOf(pre[arg.t], arg.k)) > 1
    /\ Len(heap[y]) > 0
    /\ pre[arg.t][1][1] = arg.k
    /\ pre[arg.t][Len(pre[arg.t])][1] = arg.k

\* C17: upsertAt, setParam, appendAt and deleteAt leave every object of the heap
\* before the call as it was, x with the tuples it was built with; the result
\* is a new object, and a later set on x or on the result changes no other object.
C17_UpdatesPure ==
    /\ op \in Updates =>
          /\ \A r \in DOMAIN pre : heap[r] = pre[r]
          /\ y \in DOMAIN heap /\ y \notin DOMAIN pre
          /\ Params_toTuples(heap[x]) = made
    /\ op = "set" =>
          \A r \in DOMAIN heap \ {arg.t} : heap[r] = pre[r]

\* A second update, applied to the result of the first one, with three
\* different collections in the heap.
C17_Witness ==
    /\ op \in Updates
    /\ arg.t # x
    /\ heap[y] # heap[arg.t]
    /\ heap[arg.t] # heap[x]
    /\ heap[y] # heap[x]

\* C18: the keys of toRecord(x) are the keys of x, and each maps to the
\* non-empty list of its values in the order of x.
C18_ToRecordGroups ==
    op = "toRecord" =>
        /\ DOMAIN out.val = KeysOf(heap[x])
        /\ \A k \in DOMAIN out.val :
              /\ out.val[k] = ValuesOf(heap[x], k)
              /\ out.val[k] # <<>>

\* toRecord of 'a=b&c=d&a=e': two values of one key around another key.
C18_Witness ==
    /\ op = "toRecord"
    /\ Len(heap[x]) = MaxPairs
    /\ heap[x][1][1] = heap[x][Len(heap[x])][1]
    /\ heap[x][1][2] # heap[x][Len(heap[x])][2]
    /\ Cardinality(DOMAIN out.val) > 1
    /\ Len(out.val[heap[x][1][1]]) > 1

\* C19: lookup(k)(x) is None iff x has no pair of key k and otherwise Some of
\* the values of k in order; lookupFirst(k)(x) is None in the same cases and
\* otherwise Some of the first of those values, the empty string too.
C19_LookupAgree ==
    /\ op = "lookup" =>
          /\ out = None <=> ~HasKey(heap[x], arg.k)
          /\ out # None => out = Some(ValuesOf(heap[x], arg.k))
    /\ op = "lookupFirst" =>
          /\ out = None <=> ~HasKey(heap[x], arg.k)
          /\ out # None => out = Some(ValuesOf(heap[x], arg.k)[1])
          /\ out # None => out = Some(Params_lookup(arg.k, heap[x]).val[1])

\* lookupFirst of a key whose first value is the empty string and that has
\* another value.
C19_Witness ==
    /\ op = "lookupFirst"
    /\ out = Some(<<>>)
    /\ Len(ValuesOf(heap[x], arg.k)) > 1
    /\ ValuesOf(heap[x], arg.k)[Len(ValuesOf(heap[x], arg.k))] # <<>>

\* ------------------------------------------------------------------ properties of NonEmptyString
\* C20: fromString(s) is None iff s has length 0, and otherwise Some(w) with
\* unNonEmptyString(w) equal to s; it never throws.
C20_FromStringValidates ==
    /\ op = "fromString" =>
          /\ out = None <=> Len(arg.s) = 0
          /\ out # None => out.tag = "Some" /\ x = out.val
    /\ op = "unNonEmptyString" =>
          /\ out = [tag |-> "string", val |-> arg.s]
          /\ Len(out.val) > 0

\* unNonEmptyString of what fromString made of a string of two characters.
C20_Witness ==
    /\ op = "unNonEmptyString"
    /\ Len(arg.s) > 1
    /\ out.val = arg.s

\* C21: unsafeFromString throws on the empty string alone, an error carrying the
\* message "Failed to lift an empty string to NonEmptyString", and returns
\* nothing then; of every other string it returns what fromString holds.
C21_UnsafeFromStringAborts ==
    op = "unsafeFromString" =>
        /\ Len(arg.s) = 0 =>
              out = [tag |-> "thrown",
                     val |-> <<"Failed to lift an empty string to NonEmptyString">>]
        /\ Len(arg.s) > 0 =>
              /\ out.tag = "returned"
              /\ NES_fromString(arg.s) = Some(out.val)
              /\ x = out.val
              /\ out.val = arg.s

\* unsafeFromString of the empty string has thrown.
C21_Witness ==
    /\ op = "unsafeFromString"
    /\ arg.s = <<>>
    /\ out.tag = "thrown"

\* the operations C22 is about
NesOps ==
    {"head", "last", "toUpperCase", "toLowerCase", "prepend", "append",
     "surround", "reverse", "concat"}

\* C22: whatever sequence of head, last, toUpperCase, toLowerCase, prepend,
\* append, surround, reverse and concat is applied to a value that fromString,
\* unsafeFromString or fromNumber made, none of them throws, the string held
\* has at least one character, and head and last return exactly one character.
C22_NonEmptyKept ==
    /\ NesHeld => Len(x) >= 1
    /\ op \in NesOps => out.tag = "returned" /\ x = out.val
    /\ op \in {"head", "last"} => Len(out.val) = 1

\* head after toUpperCase, and so after a sequence of two operations at least.
C22_Witness ==
    /\ op = "head"
    /\ out = [tag |-> "returned", val |-> <<"A">>]

C24_ParallelAllStarted ==
    made = "traverseArray_" =>
        /\ \A i \in DOMAIN heap : heap[i] # "idle"
        /\ op = "done" => \A i \in DOMAIN heap : heap[i] = "done"
        /\ arg.s = <<"g", "h">> =>
              /\ Len(pre) = 1 => pre = <<2>> /\ heap[1] = "sleeping" /\ x = 5
              /\ op = "done" => pre = <<2, 1>> /\ x = 10

\* traverseArray_(identity)([g, h]) has completed with n = 10.
C24_Witness ==
    /\ made = "traverseArray_"
    /\ arg.s = <<"g", "h">>
    /\ op = "done"
    /\ x = 10

\* ------------------------------------------------------------------ the placeholder origin
\* The URL at reference r has the placeholder origin, isURLPath is true of it,
\* and nothing but a path stands in front of its string.
PhonyAt(r) ==
    /\ Origin(heap[r]) = <<Https>> \o PhonyHost
    /\ isURLPath(heap, UrlValue(r))
    /\ toString(At(heap, r))[1] = "/"

\* C25: every URLPath made by fromPathname, fromString or fromURL, and every
\* one that clone or a setter (one, or two in a row) returns, has the
\* placeholder origin, so isURLPath is true of it; isURLPath is false of a URL
\* with another origin and of a string; toString of a URLPath is its pathname,
\* search and hash, with no scheme and no host in front.
C25_PhonyOriginKept ==
    /\ Held => PhonyAt(x)
    /\ op \in Setters \cup {"clone", "reparse", "setOwnPathname"} => PhonyAt(x) /\ PhonyAt(y)
    /\ op = "isURLPath" =>
          out.val = (/\ arg.v.kind = "url"
                     /\ Origin(heap[arg.v.ref]) = Origin(phonyBase))
    /\ op = "isURLPath" /\ arg.v = UrlValue(x) => out.val
    /\ op = "toString" =>
          /\ out.val = Pathname(heap[x]) \o Search(heap[x]) \o Hash(heap[x])
          /\ out.val[1] = "/"

\* setHash has returned, applied to the URLPath that setPathname("//") returned:
\* the second setter in a row.
C25_Witness ==
    /\ op = "setHash"
    /\ made = "setPathname"
    /\ PhonyAt(y)
    /\ Pathname(heap[y]) = <<"/", "/">>

====
